---- MODULE Spec2Model ----
(***************************************************************************)
(* A model of bedu-claim-rs: the AutoClaimer of src/client/claimer.rs and  *)
(* the part of HttpClient (src/client/http.rs) it drives.                  *)
(*                                                                         *)
(* The two counters are i32 values behind two tokio mutexes.  One          *)
(* invocation of perform_single_claim is a sequence of steps, cut at every *)
(* await of the code: the two lock requests, the listing round trip, the   *)
(* claim round trip and the lock request before the add.                   *)
(***************************************************************************)
EXTENDS Integers, Sequences, FiniteSets

\* ------------------------------------------------------------------ bounds
\* Longest task list a listing response carries.
MaxList == 2
\* Number of invocations of perform_single_claim in one behaviour.
MaxAttempts == 3

\* ------------------------------------------------------------- i32 values
\* i32::MAX; the counters, claim_limit and the ids are i32.
I32Max == 2147483647
I32Min == (-I32Max) - 1

\* a + b leaves the i32 range.
AddOverflows(a, b) ==
    \/ b > 0 /\ a > I32Max - b
    \/ b < 0 /\ a < I32Min - b

\* a + b modulo 2^32, as a release build computes it.
WrappingAdd(a, b) ==
    IF b > 0 /\ a > I32Max - b THEN ((a - I32Max) - 1) + ((b - I32Max) - 1)
    ELSE IF b < 0 /\ a < I32Min - b THEN ((a + I32Max) + 1) + ((b + I32Max) + 1)
    ELSE a + b

\* a - b leaves the i32 range.
SubOverflows(a, b) ==
    \/ b < 0 /\ a > I32Max + b
    \/ b > 0 /\ a < I32Min + b

\* a - b modulo 2^32, as a release build computes it.
WrappingSub(a, b) ==
    IF b < 0 /\ a > I32Max + b THEN ((a - I32Max) - 1) - ((b + I32Max) + 1)
    ELSE IF b > 0 /\ a < I32Min + b THEN ((a + I32Max) + 1) - ((b - I32Max) - 1)
    ELSE a - b

Min(a, b) == IF a <= b THEN a ELSE b

\* An i64 is the pair of its high word and its low word, both as i32 bit
\* patterns: the value is hi * 2^32 + (lo mod 2^32).
I64(hi, lo) == [hi |-> hi, lo |-> lo]

\* a < b on the two words read as u32.
ULess(a, b) == IF (a < 0) = (b < 0) THEN a < b ELSE b < 0

\* The i64 v plus the i32 c, exactly (the sums met stay far inside an i64).
Add64(v, c) ==
    LET lo == WrappingAdd(v.lo, c)
    IN  I64(v.hi + (IF c < 0 THEN -1 ELSE 0) + (IF ULess(lo, v.lo) THEN 1 ELSE 0),
            lo)

\* The i32 c as an i64.
SignExtend(c) == I64(IF c < 0 THEN -1 ELSE 0, c)

\* `v as i32` on an i64: the low 32 bits.
AsI32(v) == v.lo

\* The i64 is the sign extension of its low word: its value is an i32.
FitsI32(v) == (v.hi = 0 /\ v.lo >= 0) \/ (v.hi = -1 /\ v.lo < 0)

\* ---------------------------------------------------- strings and numbers
DigitChar == <<"0", "1", "2", "3", "4", "5", "6", "7", "8", "9">>

RECURSIVE Digits(_)
Digits(n) ==
    IF n < 10 THEN <<DigitChar[n + 1]>>
    ELSE Append(Digits(n \div 10), DigitChar[(n % 10) + 1])

\* i32::to_string: the decimal digits, after a "-" for a negative number.
to_string(n) == IF n < 0 THEN <<"-">> \o Digits(-n) ELSE Digits(n)

DigitValue(c) == CHOOSE d \in 0..9 : DigitChar[d + 1] = c

IsDigit(c) == \E d \in 0..9 : DigitChar[d + 1] = c

RECURSIVE DigitsValue(_)
DigitsValue(s) ==
    IF Len(s) = 0 THEN 0
    ELSE 10 * DigitsValue(SubSeq(s, 1, Len(s) - 1)) + DigitValue(s[Len(s)])

\* str::parse::<u64>: digits only (the ids are far below 2^64).
ParsesU64(s) == Len(s) > 0 /\ \A i \in 1..Len(s) : IsDigit(s[i])

ParseU64(s) == DigitsValue(s)

\* ------------------------------------------------------------ the service
\* AutoClaimConfig.task_type: the library accepts any string; "producetask"
\* is the alternate mode, every other value takes the primary branch.
TaskTypes == {"audittask", "producetask", "othertask"}

\* AutoClaimConfig.claim_limit: an i32 that AutoClaimer::new does not check.
Limits == {-1, 0, 1, 2, 3, I32Max}

\* An f64 number of seconds, in hundredths of a second.
Secs(h) == [kind |-> "num", h |-> h]

\* The f64 that is not a number (the command line parses "NaN" to it).
NaN == [kind |-> "nan"]

\* x < y on f64: false whenever an operand is NaN.
F64Less(x, y) == x.kind = "num" /\ y.kind = "num" /\ x.h < y.h

\* AutoClaimConfig.interval: an f64 that AutoClaimer::new does not check.
ConfigIntervals == {Secs(-100), Secs(10)}

\* Duration::from_secs_f64 panics on a negative or NaN value, and
\* tokio::time::interval panics on a zero period.
TimerPanics(x) == x.kind = "nan" \/ x.h <= 0

\* AutoClaimConfig, cut to the fields the claimer's control flow reads.
Configs ==
    [task_type : TaskTypes, claim_limit : Limits, interval : ConfigIntervals]

\* TaskItem, cut to the two ids the claimer reads.  One task carries a
\* negative primary id, which to_string renders with a sign.
TaskPool ==
    { [task_id |-> 11, clue_id |-> 21],
      [task_id |-> 12, clue_id |-> 22],
      [task_id |-> -13, clue_id |-> 23] }

TaskLists == UNION { [1..n -> TaskPool] : n \in 0..MaxList }

\* What get_audit_task_list can return: a transport failure, a body that does
\* not decode, or a decoded TaskListResponse.
ListOutcomes ==
    { [kind |-> "transport"], [kind |-> "parse"] }
    \cup { [kind |-> "ok", errno |-> e, list |-> l] : e \in {0, 1}, l \in TaskLists }

\* The "success" member of a claim payload, when it is an integer.
SuccessValues ==
    { I64(0, 0), I64(0, 1), I64(0, 3), I64(-1, -1), I64(1, 1), I64(0, I32Max) }

\* ClaimResponse.data, an Option<Value>: absent (or null), a value that is not
\* an object, an object without "success", an object whose "success" is not
\* an i64 (a string, a float), or an object with an integer "success".
Payloads ==
    { [kind |-> "none"], [kind |-> "array"],
      [kind |-> "object", success |-> [kind |-> "missing"]],
      [kind |-> "object", success |-> [kind |-> "string"]] }
    \cup { [kind |-> "object", success |-> [kind |-> "i64", value |-> v]] :
             v \in SuccessValues }

ClaimErrnos == {0, 10003, 1}

\* What claim_audit_task can return once the request is sent.
ClaimOutcomes ==
    { [kind |-> "transport"], [kind |-> "parse"] }
    \cup { [kind |-> "ok", errno |-> e, data |-> d] : e \in ClaimErrnos, d \in Payloads }

\* ------------------------------------------------------------------ state
Workers == {"w1", "w2"}
NoOne == "none"

VARIABLES
    config,             \* AutoClaimConfig: task_type, claim_limit, interval
    overflow_checks,    \* the build: TRUE panics on i32 overflow, FALSE wraps
    successful_claims,  \* AutoClaimer.successful_claims
    attempt_count,      \* AutoClaimer.attempt_count
    attempt_lock,       \* holder of the attempt_count mutex
    claims_lock,        \* holder of the successful_claims mutex
    callers,            \* the tasks that invoke perform_single_claim
    pc,                 \* each caller's position in perform_single_claim
    loc,                \* each caller's locals that live across an await
    sent,               \* the requests the current invocation has issued
    listed,             \* the task list the current invocation received
    reply,              \* the claim response the current invocation received
    ret,                \* what the last invocation returned
    pre,                \* the counters when the current invocation began
    confirmed,          \* the sum, as an i64, of the counts the attempts returned
    invocations,        \* how many invocations have begun
    sched,              \* the position of start()
    identity,           \* the response to the identify request of start()
    final,              \* the statistics start() logs before it returns
    under_ticks,        \* how many ticks have read claimed below the limit
    args,               \* the command line of the binary
    main_pc,            \* the position of main()
    reader              \* the position of a task that calls the getters

vars ==
    << config, overflow_checks, successful_claims, attempt_count, attempt_lock,
       claims_lock, callers, pc, loc, sent, listed, reply, ret, pre, invocations, confirmed,
       sched, identity, final, under_ticks, args, main_pc, reader >>

\* What start(), main() and the getter task own.
start_vars == << sched, identity, final, under_ticks, args, main_pc, reader >>

None == [kind |-> "none"]
Ok(v) == [kind |-> "Ok", val |-> v]
Err(why) == [kind |-> "Err", why |-> why]
Panic == [kind |-> "Panic"]

NoLocals ==
    [ successful_claims |-> 0, remaining_claims_needed |-> 0,
      task_ids |-> <<>>, count |-> 0 ]

\* The counters, locks and tasks of a new claimer used by the tasks cs.
Fresh(cs) ==
    /\ overflow_checks \in BOOLEAN
    /\ successful_claims = 0
    /\ attempt_count = 0
    /\ attempt_lock = NoOne
    /\ claims_lock = NoOne
    /\ callers = cs
    /\ pc = [w \in Workers |-> "idle"]
    /\ loc = [w \in Workers |-> NoLocals]
    /\ sent = [w \in Workers |-> <<>>]
    /\ listed = [w \in Workers |-> None]
    /\ reply = [w \in Workers |-> None]
    /\ ret = [w \in Workers |-> None]
    /\ pre = [w \in Workers |-> [attempts |-> 0, claims |-> 0]]
    /\ invocations = 0
    /\ confirmed = I64(0, 0)
    /\ identity = None
    /\ final = None
    /\ under_ticks = 0
    /\ reader = "idle"

\* AutoClaimer::new, for the tasks cs that will use the claimer.
InitClaimer(cs) ==
    /\ config \in Configs
    /\ Fresh(cs)

\* perform_single_claim is called directly: no start(), no main().
InitWith(cs) ==
    /\ InitClaimer(cs)
    /\ sched = "off"
    /\ args = None
    /\ main_pc = "off"

\* One caller: perform_single_claim is invoked again only after it returned.
Init == InitWith({"w1"})

\* ------------------------------------------------------- the code's steps
get_successful_claims == successful_claims

get_attempt_count == attempt_count

\* The increment made on a copy of the guarded value: the counter keeps n.
NextAttemptOnCopy(n) == n

\* *attempt_count += 1
NextAttempt(n) == WrappingAdd(n, 1)

\* The limit check taking only a count equal to the limit for the end.
LimitReachedExactly(claims, limit) == claims = limit

\* The limit check off by one.
LimitExceeded(claims, limit) == claims > limit

\* successful_claims >= self.config.claim_limit
LimitReached(claims, limit) == claims >= limit

\* The selection without the take.
Unfiltered(tasks, remaining) == tasks

\* tasks.into_iter().take(remaining_claims_needed as usize): a negative i32
\* becomes a usize above any list length.
Filtered(tasks, remaining) ==
    IF remaining < 0 THEN tasks
    ELSE SubSeq(tasks, 1, Min(remaining, Len(tasks)))

\* The id taken without regard to the task type.
SubmissionIdPrimary(task, task_type) == to_string(task.task_id)

\* The id of one task as a string.
SubmissionId(task, task_type) ==
    IF task_type = "producetask" THEN to_string(task.clue_id)
    ELSE to_string(task.task_id)

TaskIds(tasks, task_type) ==
    [i \in 1..Len(tasks) |-> SubmissionId(tasks[i], task_type)]

CommitType(task_type) ==
    IF task_type = "producetask" THEN "producetaskcommit" ELSE "audittaskcommit"

BodyKey(task_type) ==
    IF task_type = "producetask" THEN "clueIDs" ELSE "taskIDs"

ListRequest(task_type) ==
    [kind |-> "list", task_type |-> task_type, pn |-> 1, rn |-> 20]

ClaimRequest(task_ids, task_type) ==
    [ kind |-> "claim", commit_type |-> CommitType(task_type),
      key |-> BodyKey(task_type),
      ids |-> [i \in 1..Len(task_ids) |-> ParseU64(task_ids[i])] ]

\* The errno check made only for a listing without tasks.
ListingRejectedIfEmpty(resp) == resp.errno # 0 /\ resp.list = <<>>

\* task_response.errno != 0
ListingRejected(resp) == resp.errno # 0

\* An empty listing reported as a failure.
NoTasksError == Err("empty")

\* What an attempt returns when the listing carries no task.
NoTasksResult == Ok(0)

\* No count assumed when the response names none.
SuccessCountExplicitOnly(data, n) ==
    IF data.kind = "object" /\ data.success.kind = "i64"
    THEN AsI32(data.success.value)
    ELSE 0

\* The count claim_tasks takes from a response with errno 0 for n ids.
SuccessCount(data, n) ==
    IF data.kind = "object" /\ data.success.kind = "i64"
    THEN AsI32(data.success.value)
    ELSE n

\* The recognized code 10003 taken for an accepted response.
AcceptedOrPending(resp) == resp.errno \in {0, 10003}

\* The response is accepted: its count is added to successful_claims.
Accepted(resp) == resp.errno = 0

\* The invocation of w ends with r.
Return(w, r) ==
    /\ pc' = [pc EXCEPT ![w] = IF r.kind = "Panic" THEN "panicked" ELSE "idle"]
    /\ ret' = [ret EXCEPT ![w] = r]

\* perform_single_claim is entered.
Invoke(w) ==
    /\ pc[w] = "idle"
    /\ invocations < MaxAttempts
    /\ invocations' = invocations + 1
    /\ pc' = [pc EXCEPT ![w] = "lock_attempt"]
    /\ loc' = [loc EXCEPT ![w] = NoLocals]
    /\ sent' = [sent EXCEPT ![w] = <<>>]
    /\ listed' = [listed EXCEPT ![w] = None]
    /\ reply' = [reply EXCEPT ![w] = None]
    /\ ret' = [ret EXCEPT ![w] = None]
    /\ pre' = [pre EXCEPT ![w] =
                 [attempts |-> attempt_count, claims |-> successful_claims]]
    /\ UNCHANGED confirmed

\* A caller of the library invokes perform_single_claim.
Call(w) ==
    /\ sched = "off"
    /\ Invoke(w)
    /\ UNCHANGED << config, overflow_checks, successful_claims, attempt_count,
                    attempt_lock, claims_lock, callers >>
    /\ UNCHANGED start_vars

\* self.attempt_count.lock().await
LockAttemptCount(w) ==
    /\ pc[w] = "lock_attempt"
    /\ attempt_lock = NoOne
    /\ attempt_lock' = w
    /\ pc' = [pc EXCEPT ![w] = "increment"]
    /\ UNCHANGED << config, overflow_checks, successful_claims, attempt_count,
                    claims_lock, callers, loc, sent, listed, reply, ret, pre,
                    invocations, confirmed >>
    /\ UNCHANGED start_vars

\* The increment without the drop: the guard lives on through the attempt.
IncrementAttemptHoldingGuard(w) ==
    /\ pc[w] = "increment"
    /\ attempt_lock = w
    /\ IF overflow_checks /\ AddOverflows(attempt_count, 1)
       THEN /\ Return(w, Panic)
            /\ UNCHANGED attempt_count
       ELSE /\ attempt_count' = NextAttempt(attempt_count)
            /\ pc' = [pc EXCEPT ![w] = "lock_claims"]
            /\ UNCHANGED ret
    /\ UNCHANGED << config, overflow_checks, successful_claims, attempt_lock,
                    claims_lock, callers, loc, sent, listed, reply, pre,
                    invocations, confirmed >>
    /\ UNCHANGED start_vars

\* *attempt_count += 1; drop(attempt_count)
IncrementAttempt(w) ==
    /\ pc[w] = "increment"
    /\ attempt_lock = w
    /\ attempt_lock' = NoOne
    /\ IF overflow_checks /\ AddOverflows(attempt_count, 1)
       THEN /\ Return(w, Panic)
            /\ UNCHANGED attempt_count
       ELSE /\ attempt_count' = NextAttempt(attempt_count)
            /\ pc' = [pc EXCEPT ![w] = "lock_claims"]
            /\ UNCHANGED ret
    /\ UNCHANGED << config, overflow_checks, successful_claims, claims_lock,
                    callers, loc, sent, listed, reply, pre, invocations, confirmed >>
    /\ UNCHANGED start_vars

\* self.successful_claims.lock().await, of the read
LockClaimsForRead(w) ==
    /\ pc[w] = "lock_claims"
    /\ claims_lock = NoOne
    /\ claims_lock' = w
    /\ pc' = [pc EXCEPT ![w] = "read_claims"]
    /\ UNCHANGED << config, overflow_checks, successful_claims, attempt_count,
                    attempt_lock, callers, loc, sent, listed, reply, ret, pre,
                    invocations, confirmed >>
    /\ UNCHANGED start_vars

\* A variant that keeps the guard of the claimed count across the listing
\* request instead of copying the count out and dropping the guard.
ReadClaimsHoldingGuard(w) ==
    /\ pc[w] = "read_claims"
    /\ claims_lock = w
    /\ LET claims == successful_claims
           limit == config.claim_limit
       IN  IF LimitReached(claims, limit)
           THEN /\ Return(w, Ok(0))
                /\ claims_lock' = NoOne
                /\ loc' = [loc EXCEPT ![w].successful_claims = claims]
                /\ UNCHANGED sent
           ELSE /\ loc' = [loc EXCEPT
                             ![w].successful_claims = claims,
                             ![w].remaining_claims_needed = WrappingSub(limit, claims)]
                /\ claims_lock' = w
                /\ sent' = [sent EXCEPT
                              ![w] = Append(@, ListRequest(config.task_type))]
                /\ pc' = [pc EXCEPT ![w] = "listing"]
                /\ UNCHANGED ret
    /\ UNCHANGED << config, overflow_checks, successful_claims, attempt_count,
                    attempt_lock, callers, listed, reply, pre, invocations, confirmed >>
    /\ UNCHANGED start_vars

\* The read of successful_claims, the limit check, and the listing request.
ReadClaims(w) ==
    /\ pc[w] = "read_claims"
    /\ claims_lock = w
    /\ claims_lock' = NoOne
    /\ LET claims == successful_claims
           limit == config.claim_limit
       IN  IF LimitReached(claims, limit)
           THEN /\ Return(w, Ok(0))
                /\ loc' = [loc EXCEPT ![w].successful_claims = claims]
                /\ UNCHANGED sent
           ELSE IF overflow_checks /\ SubOverflows(limit, claims)
           THEN /\ Return(w, Panic)
                /\ loc' = [loc EXCEPT ![w].successful_claims = claims]
                /\ UNCHANGED sent
           ELSE /\ loc' = [loc EXCEPT
                             ![w].successful_claims = claims,
                             ![w].remaining_claims_needed = WrappingSub(limit, claims)]
                /\ sent' = [sent EXCEPT
                              ![w] = Append(@, ListRequest(config.task_type))]
                /\ pc' = [pc EXCEPT ![w] = "listing"]
                /\ UNCHANGED ret
    /\ UNCHANGED << config, overflow_checks, successful_claims, attempt_count,
                    attempt_lock, callers, listed, reply, pre, invocations, confirmed >>
    /\ UNCHANGED start_vars

\* The listing comes back, one of answers: the errno check, the selection of
\* the batch and, through claim_tasks and claim_audit_task, the claim request.
ListReplyFrom(w, answers) ==
    /\ pc[w] = "listing"
    /\ \E r \in answers :
         IF r.kind # "ok"
         THEN /\ Return(w, Err(r.kind))
              /\ UNCHANGED << loc, sent, listed >>
         ELSE IF ListingRejected(r)
         THEN /\ Return(w, Err("listing"))
              /\ listed' = [listed EXCEPT ![w] = r]
              /\ UNCHANGED << loc, sent >>
         ELSE LET tasks == r.list
                  filtered_tasks == Filtered(tasks, loc[w].remaining_claims_needed)
                  task_ids == TaskIds(filtered_tasks, config.task_type)
              IN  /\ listed' = [listed EXCEPT ![w] = r]
                  /\ IF Len(tasks) = 0
                     THEN /\ Return(w, NoTasksResult)
                          /\ UNCHANGED << loc, sent >>
                     ELSE IF Len(filtered_tasks) = 0
                     THEN /\ Return(w, Ok(0))
                          /\ UNCHANGED << loc, sent >>
                     ELSE IF \E i \in 1..Len(task_ids) : ~ParsesU64(task_ids[i])
                     THEN /\ Return(w, Err("id"))
                          /\ loc' = [loc EXCEPT ![w].task_ids = task_ids]
                          /\ UNCHANGED sent
                     ELSE /\ loc' = [loc EXCEPT ![w].task_ids = task_ids]
                          /\ sent' = [sent EXCEPT ![w] =
                                        Append(@, ClaimRequest(task_ids, config.task_type))]
                          /\ pc' = [pc EXCEPT ![w] = "claiming"]
                          /\ UNCHANGED ret
    /\ UNCHANGED << config, overflow_checks, successful_claims, attempt_count,
                    attempt_lock, claims_lock, callers, reply, pre, invocations, confirmed >>
    /\ UNCHANGED start_vars

\* The listing sent again when no answer came (up to three requests).
ListReplyRetrying(w) ==
    \/ ListReplyFrom(w, ListOutcomes)
    \/ /\ pc[w] = "listing"
       /\ Len(sent[w]) < 3
       /\ sent' = [sent EXCEPT ![w] = Append(@, sent[w][1])]
       /\ UNCHANGED << config, overflow_checks, successful_claims,
                       attempt_count, attempt_lock, claims_lock, callers, pc,
                       loc, listed, reply, ret, pre, invocations, confirmed >>
       /\ UNCHANGED start_vars

ListReply(w) == ListReplyFrom(w, ListOutcomes)

\* The claim response comes back, one of answers, and claim_tasks interprets
\* it.
ClaimReplyFrom(w, answers) ==
    /\ pc[w] = "claiming"
    /\ \E r \in answers :
         IF r.kind # "ok"
         THEN /\ Return(w, Err(r.kind))
              /\ UNCHANGED << loc, reply >>
         ELSE /\ reply' = [reply EXCEPT ![w] = r]
              /\ IF Accepted(r)
                 THEN /\ loc' = [loc EXCEPT ![w].count =
                                   SuccessCount(r.data, Len(loc[w].task_ids))]
                      /\ pc' = [pc EXCEPT ![w] = "lock_add"]
                      /\ UNCHANGED ret
                 ELSE /\ Return(w, Ok(0))
                      /\ UNCHANGED loc
    /\ UNCHANGED << config, overflow_checks, successful_claims, attempt_count,
                    attempt_lock, claims_lock, callers, sent, listed, pre,
                    invocations, confirmed >>
    /\ UNCHANGED start_vars

ClaimReply(w) == ClaimReplyFrom(w, ClaimOutcomes)

\* self.successful_claims.lock().await, of the add
LockClaimsForAdd(w) ==
    /\ pc[w] = "lock_add"
    /\ claims_lock = NoOne
    /\ claims_lock' = w
    /\ pc' = [pc EXCEPT ![w] = "add_claims"]
    /\ UNCHANGED << config, overflow_checks, successful_claims, attempt_count,
                    attempt_lock, callers, loc, sent, listed, reply, ret, pre,
                    invocations, confirmed >>
    /\ UNCHANGED start_vars

\* *successful_claims += count, and the return of the count
AddClaims(w) ==
    /\ pc[w] = "add_claims"
    /\ claims_lock = w
    /\ claims_lock' = NoOne
    /\ IF overflow_checks /\ AddOverflows(successful_claims, loc[w].count)
       THEN /\ Return(w, Panic)
            /\ UNCHANGED << successful_claims, confirmed >>
       ELSE /\ successful_claims' = WrappingAdd(successful_claims, loc[w].count)
            /\ confirmed' = Add64(confirmed, loc[w].count)
            /\ Return(w, Ok(loc[w].count))
    /\ UNCHANGED << config, overflow_checks, attempt_count, attempt_lock,
                    callers, loc, sent, listed, reply, pre, invocations >>
    /\ UNCHANGED start_vars

Next ==
    \/ \E w \in callers : Call(w)
    \/ \E w \in callers : LockAttemptCount(w)
    \/ \E w \in callers : IncrementAttempt(w)
    \/ \E w \in callers : LockClaimsForRead(w)
    \/ \E w \in callers : ReadClaims(w)
    \/ \E w \in callers : ListReply(w)
    \/ \E w \in callers : ClaimReply(w)
    \/ \E w \in callers : LockClaimsForAdd(w)
    \/ \E w \in callers : AddClaims(w)

Spec == Init /\ [][Next]_vars

\* Two tasks share the claimer and invoke perform_single_claim concurrently
\* (in the primary mode; the interval is read by start() only).
InitConcurrent ==
    /\ InitWith(Workers)
    /\ config.task_type = "audittask"
    /\ config.interval = Secs(10)

\* The listings answered to concurrent callers: a transport failure, one
\* task, two tasks.
FewListOutcomes ==
    { [kind |-> "transport"],
      [kind |-> "ok", errno |-> 0, list |-> << [task_id |-> 11, clue_id |-> 21] >>],
      [kind |-> "ok", errno |-> 0,
       list |-> << [task_id |-> 11, clue_id |-> 21],
                   [task_id |-> 12, clue_id |-> 22] >>] }

\* The claim responses answered to concurrent callers: accepted without a
\* count, accepted with a count of 1 or of i32::MAX, and rejected.
FewClaimOutcomes ==
    { [kind |-> "ok", errno |-> 0, data |-> [kind |-> "none"]],
      [kind |-> "ok", errno |-> 0,
       data |-> [kind |-> "object",
                 success |-> [kind |-> "i64", value |-> I64(0, 1)]]],
      [kind |-> "ok", errno |-> 0,
       data |-> [kind |-> "object",
                 success |-> [kind |-> "i64", value |-> I64(0, I32Max)]]],
      [kind |-> "ok", errno |-> 10003, data |-> [kind |-> "none"]] }

NextConcurrent ==
    \/ \E w \in callers : Call(w)
    \/ \E w \in callers : LockAttemptCount(w)
    \/ \E w \in callers : IncrementAttempt(w)
    \/ \E w \in callers : LockClaimsForRead(w)
    \/ \E w \in callers : ReadClaims(w)
    \/ \E w \in callers : ListReplyFrom(w, FewListOutcomes)
    \/ \E w \in callers : ClaimReplyFrom(w, FewClaimOutcomes)
    \/ \E w \in callers : LockClaimsForAdd(w)
    \/ \E w \in callers : AddClaims(w)

SpecConcurrent == InitConcurrent /\ [][NextConcurrent]_vars

\* ---------------------------------------------------------------- start()
\* The task that runs start(), and with it every attempt of the loop.
StartTask == "w1"

\* What get_user_info can return: a transport failure, a body that does not
\* decode, or a decoded UserInfoResponse.
IdentifyOutcomes ==
    { [kind |-> "transport"], [kind |-> "parse"] }
    \cup { [kind |-> "ok", errno |-> e] : e \in {0, 1} }

\* The errno of the identify response left unread.
IdentifiedIfDecoded(r) == r.kind = "ok"

\* validate_user returns Ok: the response decoded and its errno is 0.
Identified(r) == r.kind = "ok" /\ r.errno = 0

\* The loop going on at the limit and stopping only beyond it.
StopNowBeyond(claims, limit) == claims > limit

\* successful_claims >= self.config.claim_limit, of the loop
StopNow(claims, limit) == claims >= limit

\* A library user calls start() on a new claimer.
InitStart ==
    /\ InitClaimer({StartTask})
    /\ sched = "start"
    /\ args = None
    /\ main_pc = "off"

\* start() is entered and validate_user sends the identify request.
StartBegin ==
    /\ sched = "start"
    /\ sched' = "validating"
    /\ UNCHANGED << config, overflow_checks, successful_claims, attempt_count,
                    attempt_lock, claims_lock, callers, pc, loc, sent, listed,
                    reply, ret, pre, invocations, confirmed, identity, final, under_ticks,
                    args, main_pc, reader >>

\* The identify response comes back: validate_user fails, or the interval
\* timer is set up, which panics on an interval it cannot take.
IdentifyReply ==
    /\ sched = "validating"
    /\ \E r \in IdentifyOutcomes :
         /\ identity' = r
         /\ sched' = CASE ~Identified(r) -> "failed"
                       [] TimerPanics(config.interval) -> "no_timer"
                       [] OTHER -> "waiting"
    /\ UNCHANGED << config, overflow_checks, successful_claims, attempt_count,
                    attempt_lock, claims_lock, callers, pc, loc, sent, listed,
                    reply, ret, pre, invocations, confirmed, final, under_ticks, args,
                    main_pc, reader >>

\* interval.tick().await completes.
Tick ==
    /\ sched = "waiting"
    /\ sched' = "lock_check"
    /\ UNCHANGED << config, overflow_checks, successful_claims, attempt_count,
                    attempt_lock, claims_lock, callers, pc, loc, sent, listed,
                    reply, ret, pre, invocations, confirmed, identity, final, under_ticks,
                    args, main_pc, reader >>

\* self.successful_claims.lock().await, of the loop
LockClaimsForCheck ==
    /\ sched = "lock_check"
    /\ claims_lock = NoOne
    /\ claims_lock' = StartTask
    /\ sched' = "check"
    /\ UNCHANGED << config, overflow_checks, successful_claims, attempt_count,
                    attempt_lock, callers, pc, loc, sent, listed, reply, ret,
                    pre, invocations, confirmed, identity, final, under_ticks, args,
                    main_pc, reader >>

\* The read of the loop and its limit check: break, or perform_single_claim.
CheckLimit ==
    /\ sched = "check"
    /\ claims_lock = StartTask
    /\ claims_lock' = NoOne
    /\ IF StopNow(successful_claims, config.claim_limit)
       THEN /\ sched' = "lock_final_claims"
            /\ UNCHANGED << pc, loc, sent, listed, reply, ret, pre, invocations, confirmed,
                            under_ticks >>
       ELSE /\ sched' = "attempting"
            /\ under_ticks' = under_ticks + 1
            /\ Invoke(StartTask)
    /\ UNCHANGED << config, overflow_checks, successful_claims, attempt_count,
                    attempt_lock, callers, identity, final, args, main_pc,
                    reader >>

\* The attempt run as a task of its own: the loop goes on without its end.
AttemptDetached ==
    /\ sched = "attempting"
    /\ sched' = "waiting"
    /\ UNCHANGED << config, overflow_checks, successful_claims, attempt_count,
                    attempt_lock, claims_lock, callers, pc, loc, sent, listed,
                    reply, ret, pre, invocations, confirmed, identity, final, under_ticks,
                    args, main_pc, reader >>

\* The await with `?`: an error of the attempt is passed on and ends start().
AwaitAttemptPropagating ==
    /\ sched = "attempting"
    /\ pc[StartTask] \in {"idle", "panicked"}
    /\ ret[StartTask].kind # "none"
    /\ sched' = CASE ret[StartTask].kind = "Err" -> "failed"
                  [] ret[StartTask].kind = "Panic" -> "crashed"
                  [] OTHER -> "waiting"
    /\ UNCHANGED << config, overflow_checks, successful_claims, attempt_count,
                    attempt_lock, claims_lock, callers, pc, loc, sent, listed,
                    reply, ret, pre, invocations, confirmed, identity, final,
                    under_ticks, args, main_pc, reader >>

\* perform_single_claim(). await completes: an error is logged and followed by
\* the sleep, a panic unwinds start().
AwaitAttempt ==
    /\ sched = "attempting"
    /\ pc[StartTask] \in {"idle", "panicked"}
    /\ ret[StartTask].kind # "none"
    /\ sched' = CASE ret[StartTask].kind = "Err" -> "backoff"
                  [] ret[StartTask].kind = "Panic" -> "crashed"
                  [] OTHER -> "waiting"
    /\ UNCHANGED << config, overflow_checks, successful_claims, attempt_count,
                    attempt_lock, claims_lock, callers, pc, loc, sent, listed,
                    reply, ret, pre, invocations, confirmed, identity, final, under_ticks,
                    args, main_pc, reader >>

\* sleep(Duration::from_secs(1)).await completes.
BackoffDone ==
    /\ sched = "backoff"
    /\ sched' = "waiting"
    /\ UNCHANGED << config, overflow_checks, successful_claims, attempt_count,
                    attempt_lock, claims_lock, callers, pc, loc, sent, listed,
                    reply, ret, pre, invocations, confirmed, identity, final, under_ticks,
                    args, main_pc, reader >>

\* self.successful_claims.lock().await, after the loop
LockFinalClaims ==
    /\ sched = "lock_final_claims"
    /\ claims_lock = NoOne
    /\ claims_lock' = StartTask
    /\ sched' = "final_claims"
    /\ UNCHANGED << config, overflow_checks, successful_claims, attempt_count,
                    attempt_lock, callers, pc, loc, sent, listed, reply, ret,
                    pre, invocations, confirmed, identity, final, under_ticks, args,
                    main_pc, reader >>

\* The final read taking the value out of the counter.
ReadFinalClaimsTaking ==
    /\ sched = "final_claims"
    /\ claims_lock = StartTask
    /\ claims_lock' = NoOne
    /\ final' = [kind |-> "claims", claims |-> successful_claims]
    /\ successful_claims' = 0
    /\ sched' = "lock_final_attempts"
    /\ UNCHANGED << config, overflow_checks, attempt_count, attempt_lock,
                    callers, pc, loc, sent, listed, reply, ret, pre,
                    invocations, confirmed, identity, under_ticks, args, main_pc, reader >>

\* let final_claims = *guard
ReadFinalClaims ==
    /\ sched = "final_claims"
    /\ claims_lock = StartTask
    /\ claims_lock' = NoOne
    /\ final' = [kind |-> "claims", claims |-> successful_claims]
    /\ sched' = "lock_final_attempts"
    /\ UNCHANGED << config, overflow_checks, successful_claims, attempt_count,
                    attempt_lock, callers, pc, loc, sent, listed, reply, ret,
                    pre, invocations, confirmed, identity, under_ticks, args, main_pc,
                    reader >>

\* self.attempt_count.lock().await, after the loop
LockFinalAttempts ==
    /\ sched = "lock_final_attempts"
    /\ attempt_lock = NoOne
    /\ attempt_lock' = StartTask
    /\ sched' = "final_attempts"
    /\ UNCHANGED << config, overflow_checks, successful_claims, attempt_count,
                    claims_lock, callers, pc, loc, sent, listed, reply, ret,
                    pre, invocations, confirmed, identity, final, under_ticks, args,
                    main_pc, reader >>

\* let final_attempts = *guard; the statistics are logged and start() returns.
ReadFinalAttempts ==
    /\ sched = "final_attempts"
    /\ attempt_lock = StartTask
    /\ attempt_lock' = NoOne
    /\ final' = [kind |-> "stats", claims |-> final.claims,
                 attempts |-> attempt_count]
    /\ sched' = "completed"
    /\ UNCHANGED << config, overflow_checks, successful_claims, attempt_count,
                    claims_lock, callers, pc, loc, sent, listed, reply, ret,
                    pre, invocations, confirmed, identity, under_ticks, args, main_pc,
                    reader >>

\* ------------------------------------------------------------ the getters
Counters == {"attempt_count", "successful_claims"}

\* The getter task calls until more than this many attempts have begun.
MaxWatched == 1

\* The lock request of get_attempt_count or get_successful_claims is granted.
GetterLock(c) ==
    /\ reader = "idle"
    /\ invocations <= MaxWatched
    /\ IF c = "attempt_count"
       THEN /\ attempt_lock = NoOne
            /\ attempt_lock' = "reader"
            /\ UNCHANGED claims_lock
       ELSE /\ claims_lock = NoOne
            /\ claims_lock' = "reader"
            /\ UNCHANGED attempt_lock
    /\ reader' = c
    /\ UNCHANGED << config, overflow_checks, successful_claims, attempt_count,
                    callers, pc, loc, sent, listed, reply, ret, pre, invocations, confirmed,
                    sched, identity, final, under_ticks, args, main_pc >>

\* The getter returns the value it reads and its guard is dropped.
GetterReturn ==
    /\ reader \in Counters
    /\ IF reader = "attempt_count"
       THEN /\ attempt_lock' = NoOne
            /\ UNCHANGED claims_lock
       ELSE /\ claims_lock' = NoOne
            /\ UNCHANGED attempt_lock
    /\ reader' = "idle"
    /\ UNCHANGED << config, overflow_checks, successful_claims, attempt_count,
                    callers, pc, loc, sent, listed, reply, ret, pre, invocations, confirmed,
                    sched, identity, final, under_ticks, args, main_pc >>

\* The steps of an attempt, once perform_single_claim is entered.
AttemptStep(w) ==
    \/ LockAttemptCount(w)
    \/ IncrementAttempt(w)
    \/ LockClaimsForRead(w)
    \/ ReadClaims(w)
    \/ ListReply(w)
    \/ ClaimReply(w)
    \/ LockClaimsForAdd(w)
    \/ AddClaims(w)

NextStart ==
    \/ StartBegin
    \/ IdentifyReply
    \/ Tick
    \/ LockClaimsForCheck
    \/ CheckLimit
    \/ AwaitAttempt
    \/ BackoffDone
    \/ LockFinalClaims
    \/ ReadFinalClaims
    \/ LockFinalAttempts
    \/ ReadFinalAttempts
    \/ \E w \in callers : AttemptStep(w)

\* start() on a new claimer.
SpecStart == InitStart /\ [][NextStart]_vars

NextMonitored ==
    \/ NextStart
    \/ \E c \in Counters : GetterLock(c)
    \/ GetterReturn

\* start() on a new claimer, with a task that calls the getters meanwhile.
SpecMonitored == InitStart /\ [][NextMonitored]_vars

\* ------------------------------------------------------------------ main()
\* Args.cookie: absent text, or a credential.
Cookies == {"", "BDUSS=x"}

\* Args.interval: any f64 the command line parses.
ArgIntervals == {Secs(-100), Secs(9), Secs(10), NaN}

\* The command lines main() can be given (the other options are passed on).
ArgSets ==
    [cookie : Cookies, interval : ArgIntervals, task_type : TaskTypes,
     limit : Limits]

\* The least interval main() accepts, 0.1 s.
MinInterval == Secs(10)

\* The checks of main() without the one of the task type.
ArgsRejectedButForMode(a) ==
    a.cookie = "" \/ F64Less(a.interval, MinInterval)

\* main() returns an error before it builds the configuration.
ArgsRejected(a) ==
    \/ a.cookie = ""
    \/ F64Less(a.interval, MinInterval)
    \/ a.task_type \notin {"audittask", "producetask"}

\* The AutoClaimConfig main() builds from its arguments.
ConfigOf(a) ==
    [task_type |-> a.task_type, claim_limit |-> a.limit, interval |-> a.interval]

\* The binary is started: Args::parse() has returned, no claimer exists.
InitMain ==
    /\ args \in ArgSets
    /\ main_pc = "validate"
    /\ sched = "off"
    /\ config = None
    /\ Fresh({StartTask})

\* The checks of main(): an error return, or the configuration is built,
\* AutoClaimer::new is called and start() is entered.
MainValidate ==
    /\ main_pc = "validate"
    /\ IF ArgsRejected(args)
       THEN /\ main_pc' = "rejected"
            /\ UNCHANGED << config, sched >>
       ELSE /\ main_pc' = "running"
            /\ config' = ConfigOf(args)
            /\ sched' = "start"
    /\ UNCHANGED << overflow_checks, successful_claims, attempt_count,
                    attempt_lock, claims_lock, callers, pc, loc, sent, listed,
                    reply, ret, pre, invocations, confirmed, identity, final, under_ticks,
                    args, reader >>

\* start().await? completes: main() returns Ok, passes the error on, or is
\* unwound by the panic of start().
MainExit ==
    /\ main_pc = "running"
    /\ sched \in {"completed", "failed", "crashed", "no_timer"}
    /\ main_pc' = CASE sched = "completed" -> "exit_ok"
                    [] sched = "failed" -> "exit_err"
                    [] OTHER -> "exit_panic"
    /\ UNCHANGED << config, overflow_checks, successful_claims, attempt_count,
                    attempt_lock, claims_lock, callers, pc, loc, sent, listed,
                    reply, ret, pre, invocations, confirmed, sched, identity, final,
                    under_ticks, args, reader >>

NextMain ==
    \/ MainValidate
    \/ MainExit
    \/ NextStart

\* The binary, from its command line to its exit.
SpecMain == InitMain /\ [][NextMain]_vars

\* ------------------------------------------- the attempt of the binary
\* The list request of the binary's own HttpClient.
MainListRequest(task_type) ==
    [kind |-> "list", task_type |-> task_type, pn |-> 1, rn |-> 20]

\* The claim request of the binary's own HttpClient, for ids that parse.
MainClaimRequest(task_ids, task_type) ==
    [ kind |-> "claim",
      commit_type |-> IF task_type = "producetask" THEN "producetaskcommit"
                      ELSE "audittaskcommit",
      key |-> IF task_type = "producetask" THEN "clueIDs" ELSE "taskIDs",
      ids |-> [i \in 1..Len(task_ids) |-> ParseU64(task_ids[i])] ]

\* The count taken for the batch size whatever the response names.
MainSuccessCountOfBatch(data, n) == n

\* success_count of perform_auto_claiming, for a response with errno 0.
MainSuccessCount(data, n) ==
    IF data.kind = "object"
    THEN IF data.success.kind = "i64" THEN data.success.value.lo ELSE n
    ELSE n

\* perform_auto_claiming returns () where perform_single_claim returns a count.
OkUnit == [kind |-> "Ok"]

\* One call of perform_auto_claiming of the binary, from the counters
\* (attempts, claims), answered by listing and, if it sends a claim, by
\* answer: the counters it leaves, the requests it sends, what it returns.
perform_auto_claiming(cfg, attempts, claims, listing, answer, checks) ==
    LET attempt_count_ == WrappingAdd(attempts, 1)
        list_request == MainListRequest(cfg.task_type)
        Out(requests, total, result) ==
            [ attempt_count |-> attempt_count_, successful_claims |-> total,
              sent |-> requests, ret |-> result ]
    IN  IF claims >= cfg.claim_limit THEN Out(<<>>, claims, OkUnit)
        ELSE IF checks /\ SubOverflows(cfg.claim_limit, claims)
        THEN Out(<<>>, claims, Panic)
        ELSE IF listing.kind # "ok"
        THEN Out(<<list_request>>, claims, Err(listing.kind))
        ELSE IF listing.errno # 0
        THEN Out(<<list_request>>, claims, Err("listing"))
        ELSE IF Len(listing.list) = 0
        THEN Out(<<list_request>>, claims, OkUnit)
        ELSE
        LET remaining_claims_needed_ == WrappingSub(cfg.claim_limit, claims)
            tasks == listing.list
            taken == IF remaining_claims_needed_ < 0 THEN Len(tasks)
                     ELSE Min(remaining_claims_needed_, Len(tasks))
            filtered_tasks == [i \in 1..taken |-> tasks[i]]
            task_ids_ == [i \in 1..taken |->
                            IF cfg.task_type = "producetask"
                            THEN to_string(filtered_tasks[i].clue_id)
                            ELSE to_string(filtered_tasks[i].task_id)]
            requests == <<list_request, MainClaimRequest(task_ids_, cfg.task_type)>>
        IN  IF taken = 0 THEN Out(<<list_request>>, claims, OkUnit)
            ELSE IF \E i \in 1..taken : ~ParsesU64(task_ids_[i])
            THEN Out(<<list_request>>, claims, Err("id"))
            ELSE IF answer.kind # "ok"
            THEN Out(requests, claims, Err(answer.kind))
            ELSE IF answer.errno = 0
            THEN LET success_count == MainSuccessCount(answer.data, taken)
                 IN  IF checks /\ AddOverflows(claims, success_count)
                     THEN Out(requests, claims, Panic)
                     ELSE Out(requests, WrappingAdd(claims, success_count), OkUnit)
            ELSE Out(requests, claims, OkUnit)

\* ------------------------------------------- start(), callers and getters
\* The getter task has called the getter of c and waits for its lock.
Wanting ==
    [ attempt_count |-> "call_attempt_count",
      successful_claims |-> "call_successful_claims" ]

\* get_attempt_count or get_successful_claims is called: the lock is requested.
GetterRequest(c) ==
    /\ reader = "idle"
    /\ reader' = Wanting[c]
    /\ UNCHANGED << config, overflow_checks, successful_claims, attempt_count,
                    attempt_lock, claims_lock, callers, pc, loc, sent, listed,
                    reply, ret, pre, invocations, confirmed, sched, identity,
                    final, under_ticks, args, main_pc >>

\* The lock the getter waits for is granted.
GetterGrant(c) ==
    /\ reader = Wanting[c]
    /\ IF c = "attempt_count"
       THEN /\ attempt_lock = NoOne
            /\ attempt_lock' = "reader"
            /\ UNCHANGED claims_lock
       ELSE /\ claims_lock = NoOne
            /\ claims_lock' = "reader"
            /\ UNCHANGED attempt_lock
    /\ reader' = c
    /\ UNCHANGED << config, overflow_checks, successful_claims, attempt_count,
                    callers, pc, loc, sent, listed, reply, ret, pre,
                    invocations, confirmed, sched, identity, final,
                    under_ticks, args, main_pc >>

\* A task other than the one in start() invokes perform_single_claim while
\* start() runs (one invocation is left to the loop).
CallBeside(w) ==
    /\ w # StartTask
    /\ sched # "off"
    /\ invocations + 1 < MaxAttempts
    /\ Invoke(w)
    /\ UNCHANGED << config, overflow_checks, successful_claims, attempt_count,
                    attempt_lock, claims_lock, callers >>
    /\ UNCHANGED start_vars

\* A tick of the loop, while an invocation is left to it.
TickBounded == invocations < MaxAttempts /\ Tick

\* The limits of the contended runs: one met at once, one met by attempts.
ContendedLimits == {0, 2}

\* The responses answered in the contended runs: a listing that fails or
\* offers one task, a claim that confirms one task or is rejected.
ContendedListOutcomes ==
    { [kind |-> "transport"],
      [kind |-> "ok", errno |-> 0, list |-> << [task_id |-> 11, clue_id |-> 21] >>] }

ContendedClaimOutcomes ==
    { [kind |-> "ok", errno |-> 0,
       data |-> [kind |-> "object",
                 success |-> [kind |-> "i64", value |-> I64(0, 1)]]],
      [kind |-> "ok", errno |-> 10003, data |-> [kind |-> "none"]] }

\* start() on a claimer that a second task and a getter task use as well
\* (in the primary mode, with an interval the timer takes).
InitContended ==
    /\ config \in Configs
    /\ config.task_type = "audittask"
    /\ config.interval = Secs(10)
    /\ config.claim_limit \in ContendedLimits
    /\ Fresh(Workers)
    /\ sched = "start"
    /\ args = None
    /\ main_pc = "off"

NextContended ==
    \/ StartBegin
    \/ IdentifyReply
    \/ TickBounded
    \/ LockClaimsForCheck
    \/ CheckLimit
    \/ AwaitAttempt
    \/ BackoffDone
    \/ LockFinalClaims
    \/ ReadFinalClaims
    \/ LockFinalAttempts
    \/ ReadFinalAttempts
    \/ \E w \in callers : CallBeside(w)
    \/ \E w \in callers : LockAttemptCount(w)
    \/ \E w \in callers : IncrementAttempt(w)
    \/ \E w \in callers : LockClaimsForRead(w)
    \/ \E w \in callers : ReadClaims(w)
    \/ \E w \in callers : ListReplyFrom(w, ContendedListOutcomes)
    \/ \E w \in callers : ClaimReplyFrom(w, ContendedClaimOutcomes)
    \/ \E w \in callers : LockClaimsForAdd(w)
    \/ \E w \in callers : AddClaims(w)
    \/ \E c \in Counters : GetterRequest(c)
    \/ \E c \in Counters : GetterGrant(c)
    \/ GetterReturn

\* The lock requests of an attempt: one task waits for one lock at a time.
AttemptGrant(w) ==
    LockAttemptCount(w) \/ LockClaimsForRead(w) \/ LockClaimsForAdd(w)

\* The steps of an attempt that end with the drop of a guard.
AttemptDrop(w) == IncrementAttempt(w) \/ ReadClaims(w) \/ AddClaims(w)

\* The lock requests of the loop of start(), and its steps that drop a guard.
LoopGrant == LockClaimsForCheck \/ LockFinalClaims \/ LockFinalAttempts

LoopDrop == CheckLimit \/ ReadFinalClaims \/ ReadFinalAttempts

\* The scheduling: tokio's Mutex grants its lock in the order of the requests,
\* so a task whose request can be granted again and again is granted (strong
\* fairness per task: the loop of start() and its attempts are one task); a
\* task that holds a guard runs on to the drop without awaiting anything
\* (weak fairness).  Nothing is assumed of the network or the timer.
FairLocks ==
    /\ SF_vars(AttemptGrant(StartTask) \/ LoopGrant)
    /\ \A w \in Workers \ {StartTask} : SF_vars(AttemptGrant(w))
    /\ SF_vars(\E c \in Counters : GetterGrant(c))
    /\ WF_vars(AttemptDrop(StartTask) \/ LoopDrop)
    /\ \A w \in Workers \ {StartTask} : WF_vars(AttemptDrop(w))
    /\ WF_vars(GetterReturn)

SpecContended == InitContended /\ [][NextContended]_vars /\ FairLocks

\* A program that checks its command line as main() does, builds the claimer
\* and runs start(), while a second task calls perform_single_claim itself.
InitDirect ==
    /\ args \in ArgSets
    /\ main_pc = "validate"
    /\ sched = "off"
    /\ config = None
    /\ Fresh(Workers)

NextDirect ==
    \/ MainValidate
    \/ MainExit
    \/ StartBegin
    \/ IdentifyReply
    \/ Tick
    \/ LockClaimsForCheck
    \/ CheckLimit
    \/ AwaitAttempt
    \/ BackoffDone
    \/ LockFinalClaims
    \/ ReadFinalClaims
    \/ LockFinalAttempts
    \/ ReadFinalAttempts
    \/ \E w \in callers : CallBeside(w)
    \/ \E w \in callers : LockAttemptCount(w)
    \/ \E w \in callers : IncrementAttempt(w)
    \/ \E w \in callers : LockClaimsForRead(w)
    \/ \E w \in callers : ReadClaims(w)
    \/ \E w \in callers : ListReplyFrom(w, ContendedListOutcomes)
    \/ \E w \in callers : ClaimReplyFrom(w, ContendedClaimOutcomes)
    \/ \E w \in callers : LockClaimsForAdd(w)
    \/ \E w \in callers : AddClaims(w)

SpecDirect == InitDirect /\ [][NextDirect]_vars

\* The number of leading attempts the service may answer in any way; the
\* later ones it answers well.
MaxFlaky == 1

\* A listing answered with errno 0 and at least one task.
GoodListOutcomes ==
    { o \in FewListOutcomes : o.kind = "ok" /\ o.errno = 0 /\ Len(o.list) >= 1 }

\* A claim answered with errno 0: the batch is accepted whole, or "success"
\* names a count of at least one.
GoodClaimOutcomes ==
    { o \in FewClaimOutcomes : o.kind = "ok" /\ o.errno = 0 }

\* start() against a service that, from some attempt on, answers well.
NextSettling ==
    \/ StartBegin
    \/ IdentifyReply
    \/ Tick
    \/ LockClaimsForCheck
    \/ CheckLimit
    \/ AwaitAttempt
    \/ BackoffDone
    \/ LockFinalClaims
    \/ ReadFinalClaims
    \/ LockFinalAttempts
    \/ ReadFinalAttempts
    \/ \E w \in callers : LockAttemptCount(w)
    \/ \E w \in callers : IncrementAttempt(w)
    \/ \E w \in callers : LockClaimsForRead(w)
    \/ \E w \in callers : ReadClaims(w)
    \/ \E w \in callers :
          ListReplyFrom(w, IF invocations <= MaxFlaky
                           THEN FewListOutcomes ELSE GoodListOutcomes)
    \/ \E w \in callers :
          ClaimReplyFrom(w, IF invocations <= MaxFlaky
                            THEN FewClaimOutcomes ELSE GoodClaimOutcomes)
    \/ \E w \in callers : LockClaimsForAdd(w)
    \/ \E w \in callers : AddClaims(w)

\* The scheduling: the runtime keeps polling start(), so the timer ticks, the
\* sleep ends, a free lock is taken and each response arrives.
SpecSettling == InitStart /\ [][NextSettling]_vars /\ WF_vars(NextSettling)

\* ----------------------------------------------------------------- claims
\* The invocation of w has ended (returned or panicked).
Ended(w) == pc[w] \in {"idle", "panicked"} /\ ret[w].kind # "none"

\* The invocation of w has returned to its caller.
Returned(w) == pc[w] = "idle" /\ ret[w].kind # "none"

\* An invocation of w has begun (and may have ended).
Begun(w) == pc[w] # "idle" \/ ret[w].kind # "none"

ClaimRequests(w) == SelectSeq(sent[w], LAMBDA q : q.kind = "claim")

ListRequests(w) == SelectSeq(sent[w], LAMBDA q : q.kind = "list")

\* The ids of the claim request w has outstanding.
Batch(w) == sent[w][Len(sent[w])].ids

\* The claim response of w carries an integer "success".
ExplicitSuccess(w) ==
    /\ reply[w].kind = "ok"
    /\ reply[w].data.kind = "object"
    /\ reply[w].data.success.kind = "i64"

\* C1: after N invocations of perform_single_claim, whatever their outcomes,
\* get_attempt_count reads N; each invocation has raised it by exactly one.
C1_AttemptsEqualInvocations ==
    \A w \in callers :
        /\ pc[w] \in {"idle", "panicked"} => get_attempt_count = invocations
        /\ Ended(w) => get_attempt_count = pre[w].attempts + 1

C1_Witness ==
    /\ Returned("w1")
    /\ invocations = 3
    /\ get_attempt_count = 3
    /\ ret["w1"].kind = "Err"
    /\ successful_claims > 0

\* C2: an attempt never lowers successful_claims, whatever the claim response
\* (any value of its success field).
C2_ClaimedNeverDecreases ==
    \A w \in callers : Ended(w) => successful_claims >= pre[w].claims

\* C3: an attempt that begins with claimed >= claim_limit returns Ok(0), sends
\* no listing request and no claim request, and leaves claimed unchanged; only
\* attempt_count moves, by one.
C3_LimitReachedShortCircuits ==
    \A w \in callers :
        (Begun(w) /\ pre[w].claims >= config.claim_limit) =>
            /\ sent[w] = <<>>
            /\ pc[w] \notin {"listing", "claiming", "lock_add", "add_claims"}
            /\ successful_claims = pre[w].claims
            /\ Ended(w) => /\ ret[w] = Ok(0)
                           /\ attempt_count = pre[w].attempts + 1

C3_Witness ==
    /\ Returned("w1")
    /\ config.claim_limit = 2
    /\ pre["w1"].claims = 2
    /\ ret["w1"] = Ok(0)
    /\ sent["w1"] = <<>>
    /\ attempt_count = 3

\* C4: a submitted batch has exactly min(r, m) ids, where r is claim_limit
\* minus claimed and m is the number of tasks the listing returned; so it has
\* at most r and at most m ids.
C4_BatchSize ==
    \A w \in callers :
        pc[w] = "claiming" =>
            LET n == Len(Batch(w))
                m == Len(listed[w].list)
            IN  /\ n <= m
                /\ IF SubOverflows(config.claim_limit, successful_claims)
                   THEN n = m
                   ELSE /\ n <= config.claim_limit - successful_claims
                        /\ n = Min(config.claim_limit - successful_claims, m)

C4_Witness ==
    /\ pc["w1"] = "claiming"
    /\ config.claim_limit = 3
    /\ successful_claims = 2
    /\ Len(listed["w1"].list) = 2
    /\ Len(Batch("w1")) = 1

\* C5: the ids an attempt submits are, in listing order, the ids of the first
\* min(remaining, len(list)) listed tasks: the clue id of each under
\* "producetask", the task id otherwise; the body key is clueIDs under
\* "producetask" and taskIDs otherwise.
C5_BatchIds ==
    \A w \in callers :
        pc[w] = "claiming" =>
            LET q == sent[w][Len(sent[w])]
                tasks == listed[w].list
                alternate == config.task_type = "producetask"
                n == IF SubOverflows(config.claim_limit, successful_claims)
                     THEN Len(tasks)
                     ELSE Min(config.claim_limit - successful_claims, Len(tasks))
            IN  /\ q.kind = "claim"
                /\ q.key = (IF alternate THEN "clueIDs" ELSE "taskIDs")
                /\ q.ids = [i \in 1..n |->
                              IF alternate THEN tasks[i].clue_id ELSE tasks[i].task_id]

C5_Witness ==
    /\ pc["w1"] = "claiming"
    /\ config.task_type = "producetask"
    /\ config.claim_limit = 3
    /\ successful_claims = 1
    /\ Len(listed["w1"].list) = 2
    /\ sent["w1"][2].key = "clueIDs"
    /\ sent["w1"][2].ids = <<22, 21>>

\* C6: a claim response with errno 0 and an integer success field k makes the
\* attempt return k and raises claimed by exactly k, whatever the batch size.
C6_ExplicitSuccessCounts ==
    \A w \in callers :
        (Ended(w) /\ ExplicitSuccess(w) /\ reply[w].errno = 0) =>
            LET k == reply[w].data.success.value
            IN  /\ FitsI32(k)
                /\ ret[w] = Ok(k.lo)
                /\ ~AddOverflows(pre[w].claims, k.lo)
                /\ successful_claims = pre[w].claims + k.lo

\* C7: a claim response with errno 0 and no usable success field (no payload,
\* a payload that is no object, an object without an integer success) makes
\* the attempt return the number n of ids submitted and raises claimed by n.
C7_ImplicitSuccessCounts ==
    \A w \in callers :
        (Ended(w) /\ reply[w].kind = "ok" /\ reply[w].errno = 0
                  /\ ~ExplicitSuccess(w)) =>
            LET n == Len(ClaimRequests(w)[1].ids)
            IN  /\ ret[w] = Ok(n)
                /\ successful_claims = pre[w].claims + n

C7_Witness ==
    /\ Returned("w1")
    /\ reply["w1"].kind = "ok"
    /\ reply["w1"].errno = 0
    /\ reply["w1"].data.kind = "object"
    /\ reply["w1"].data.success.kind = "string"
    /\ pre["w1"].claims = 1
    /\ Len(ClaimRequests("w1")[1].ids) = 2
    /\ ret["w1"] = Ok(2)
    /\ successful_claims = 3

\* C8: a claim response with a non-zero errno (10003 included) is no failure
\* of the attempt: it returns Ok(0) and leaves claimed unchanged, whatever the
\* payload of the response.
C8_RejectedClaimYieldsZero ==
    \A w \in callers :
        (reply[w].kind = "ok" /\ reply[w].errno # 0) =>
            /\ Returned(w)
            /\ ret[w] = Ok(0)
            /\ successful_claims = pre[w].claims

C8_Witness ==
    /\ Returned("w1")
    /\ reply["w1"].kind = "ok"
    /\ reply["w1"].errno = 10003
    /\ ExplicitSuccess("w1")
    /\ reply["w1"].data.success.value = I64(0, 3)
    /\ pre["w1"].claims = 1
    /\ ret["w1"] = Ok(0)
    /\ successful_claims = 1

\* C9: a listing response with a non-zero errno makes the attempt return an
\* error, with no claim request sent and claimed unchanged, even when the
\* response carries tasks.
C9_RejectedListingFails ==
    \A w \in callers :
        (listed[w].kind = "ok" /\ listed[w].errno # 0) =>
            /\ Returned(w)
            /\ ret[w].kind = "Err"
            /\ ClaimRequests(w) = <<>>
            /\ successful_claims = pre[w].claims

C9_Witness ==
    /\ Returned("w1")
    /\ listed["w1"].kind = "ok"
    /\ listed["w1"].errno = 1
    /\ Len(listed["w1"].list) = 2
    /\ ret["w1"].kind = "Err"
    /\ pre["w1"].claims = 1
    /\ successful_claims = 1

\* C10: a listing that succeeds with no task makes the attempt return Ok(0),
\* with no error, no claim request and claimed unchanged.
C10_EmptyListingYieldsZero ==
    \A w \in callers :
        (listed[w].kind = "ok" /\ listed[w].errno = 0 /\ listed[w].list = <<>>) =>
            /\ Returned(w)
            /\ ret[w] = Ok(0)
            /\ ClaimRequests(w) = <<>>
            /\ Len(ListRequests(w)) = 1
            /\ successful_claims = pre[w].claims

C10_Witness ==
    /\ Returned("w1")
    /\ listed["w1"].kind = "ok"
    /\ listed["w1"].errno = 0
    /\ listed["w1"].list = <<>>
    /\ ret["w1"] = Ok(0)
    /\ pre["w1"].claims = 1
    /\ successful_claims = 1

\* The loop of start() is running.
Running == sched \in {"waiting", "lock_check", "check", "attempting", "backoff"}

\* start() has left its loop through the break and returns Ok.
Completing ==
    sched \in { "lock_final_claims", "final_claims", "lock_final_attempts",
                "final_attempts", "completed" }

\* C11: in start(), no listing request, claim request or attempt happens
\* before identify has returned with errno 0; when identify fails (transport,
\* parse or a non-zero errno) start() returns an error without entering its
\* loop, and attempts and claimed both stay 0.
C11_IdentifyGatesTheLoop ==
    LET identified == identity.kind = "ok" /\ identity.errno = 0
    IN  /\ ~identified =>
              /\ sched \in {"start", "validating", "failed"}
              /\ \A w \in callers : sent[w] = <<>> /\ pc[w] = "idle"
              /\ invocations = 0
              /\ get_attempt_count = 0
              /\ get_successful_claims = 0
        /\ (identity.kind # "none" /\ ~identified) => sched = "failed"
        /\ sched = "failed" => ~identified

C11_Witness ==
    /\ sched = "failed"
    /\ identity = [kind |-> "ok", errno |-> 1]
    /\ get_attempt_count = 0
    /\ get_successful_claims = 0

\* start() has entered its loop.
Entered == sched \notin {"off", "start", "validating", "failed", "no_timer"}

\* C12: the loop of start() is left only by a tick that reads claimed >=
\* claim_limit, after which start() returns Ok; no failed attempt ends it.
C12_LoopEndsOnlyAtLimit ==
    (Entered /\ ~Running) =>
        /\ Completing
        /\ successful_claims >= config.claim_limit

\* C13: main() rejects, before it builds the claimer or sends a request,
\* every command line with an empty cookie, an interval below 0.1 s, or a task
\* type other than "audittask" and "producetask": the process ends with an
\* error and start() is never entered.
C13_BadArgsRejected ==
    LET bad == \/ args.cookie = ""
               \/ args.interval.kind = "num" /\ args.interval.h < MinInterval.h
               \/ args.task_type \notin {"audittask", "producetask"}
    IN  /\ bad =>
              /\ main_pc \in {"validate", "rejected"}
              /\ config = None
              /\ sched = "off"
              /\ identity = None
              /\ \A w \in callers : sent[w] = <<>> /\ pc[w] = "idle"
              /\ invocations = 0
        /\ main_pc = "rejected" => bad

C13_Witness ==
    /\ main_pc = "rejected"
    /\ args.cookie # ""
    /\ args.interval = Secs(10)
    /\ args.task_type = "othertask"
    /\ sched = "off"

\* An attempt of w is in progress: entered, and neither returned nor unwound.
InProgress(w) == pc[w] \notin {"idle", "panicked"}

\* C14: under start() the attempts are strictly sequential: at most one is in
\* progress, and while one is (its listing or claim request outstanding
\* included) the scheduler does not tick, check the limit or begin another.
C14_AttemptsSequential ==
    /\ Cardinality({w \in Workers : InProgress(w)}) <= 1
    /\ \A w \in Workers :
          InProgress(w) => (w = StartTask /\ sched = "attempting")
    /\ sched \in {"waiting", "lock_check", "check", "backoff"} =>
          \A w \in Workers : pc[w] = "idle"

C14_Witness ==
    /\ sched = "attempting"
    /\ pc[StartTask] = "claiming"
    /\ invocations = 2
    /\ attempt_count = 2

\* An identify, listing or claim request is outstanding.
RequestOutstanding ==
    \/ sched = "validating"
    \/ \E w \in callers : pc[w] \in {"listing", "claiming"}

\* C15: no critical section spans a network call: while an identify, listing
\* or claim request is outstanding no attempt (and not start()) holds the
\* attempts mutex or the claimed mutex, so the lock request of a getter that
\* is called meanwhile is granted at once.
C15_NoLockAcrossRequest ==
    RequestOutstanding =>
        /\ attempt_lock \notin Workers
        /\ claims_lock \notin Workers
        /\ reader = "idle" => (attempt_lock = NoOne /\ claims_lock = NoOne)

C15_Witness ==
    /\ pc[StartTask] = "claiming"
    /\ reader = "successful_claims"
    /\ claims_lock = "reader"
    /\ attempt_lock = NoOne
    /\ attempt_count = 1

\* C16: claimed is written only inside an attempt and only after a claim
\* response with errno 0: every step that changes it is the add of an attempt
\* whose claim request was answered with errno 0, and nothing else (the
\* scheduler, identify, the getters, an attempt that failed or stopped early)
\* changes it.
C16_ClaimedWrittenOnlyAfterAccept ==
    [][ successful_claims' # successful_claims =>
          \E w \in callers :
              /\ pc[w] = "add_claims"
              /\ pc'[w] = "idle"
              /\ claims_lock = w
              /\ ClaimRequests(w) # <<>>
              /\ reply[w].kind = "ok"
              /\ reply[w].errno = 0 ]_vars

C16_Witness ==
    /\ sched = "attempting"
    /\ Returned(StartTask)
    /\ reply[StartTask].kind = "ok"
    /\ reply[StartTask].errno = 0
    /\ pre[StartTask].claims = 0
    /\ successful_claims = 2
    /\ reader = "attempt_count"

\* No invocation is in progress.
Quiescent == \A w \in callers : ~InProgress(w)

\* C17: the writes to the counters are serialized: for every interleaving of
\* concurrent invocations no update is lost, that is, once they have ended
\* attempts equals the number of invocations and claimed equals the sum of
\* the counts the attempts returned.
C17_NoLostUpdate ==
    Quiescent =>
        /\ attempt_count = invocations
        /\ confirmed = SignExtend(successful_claims)

\* The invocation of w returned the error of a request that failed in
\* transport or whose response did not decode.
RequestFailed(w) ==
    Returned(w) /\ ret[w].kind = "Err" /\ ret[w].why \in {"transport", "parse"}

\* C18: a transport or parse failure of the listing or of the claim request
\* makes perform_single_claim return an error with claimed unchanged and
\* attempts incremented; under start() the failure is followed by the backoff
\* and a further tick, never by the end of the loop.
C18_FailureBacksOff ==
    /\ [](\A w \in callers : RequestFailed(w) =>
             /\ successful_claims = pre[w].claims
             /\ attempt_count = pre[w].attempts + 1
             /\ Len(ListRequests(w)) = 1
             /\ Running
             /\ sched = "backoff" => ENABLED BackoffDone
             /\ sched = "waiting" => ENABLED Tick)
    /\ [][ RequestFailed(StartTask) =>
              /\ (sched = "attempting" /\ sched' # sched) => sched' = "backoff"
              /\ (sched = "backoff" /\ sched' # sched) => sched' = "waiting"
              /\ (sched = "waiting" /\ sched' # sched) => sched' = "lock_check"
          ]_vars

C18_Witness ==
    /\ RequestFailed(StartTask)
    /\ ret[StartTask].why = "parse"
    /\ ClaimRequests(StartTask) # <<>>
    /\ sched = "check"
    /\ pre[StartTask].claims = 1
    /\ successful_claims = 1
    /\ attempt_count = 2

\* C19: no retry happens inside an attempt: an invocation issues at most one
\* listing request and at most one claim request, and it issues the claim
\* request only after its own listing was answered with errno 0 and a list
\* that is not empty.
C19_NoRetryInsideAttempt ==
    \A w \in callers :
        /\ Len(ListRequests(w)) <= 1
        /\ Len(ClaimRequests(w)) <= 1
        /\ pc[w] = "listing" => sent[w] = ListRequests(w)
        /\ ClaimRequests(w) # <<>> =>
              /\ Len(sent[w]) = 2
              /\ sent[w][1].kind = "list"
              /\ sent[w][2].kind = "claim"
              /\ listed[w].kind = "ok"
              /\ listed[w].errno = 0
              /\ listed[w].list # <<>>

C19_Witness ==
    /\ Returned("w1")
    /\ ret["w1"].kind = "Err"
    /\ ret["w1"].why = "transport"
    /\ Len(ListRequests("w1")) = 1
    /\ Len(ClaimRequests("w1")) = 1
    /\ Len(listed["w1"].list) = 2
    /\ invocations = 3

\* C20: under start(), once claimed has reached claim_limit the next tick goes
\* to the end of start() without invoking perform_single_claim: no listing or
\* claim request follows and attempts stays as it is, so the attempts logged
\* at the end equal the number of ticks that read claimed below the limit.
C20_StopsAtLimit ==
    /\ [](/\ invocations = under_ticks
          /\ (\A w \in callers : ~InProgress(w)) => attempt_count = under_ticks
          /\ Completing =>
                /\ successful_claims >= config.claim_limit
                /\ \A w \in callers : pc[w] = "idle"
          /\ sched = "completed" =>
                /\ final.attempts = under_ticks
                /\ final.claims = successful_claims)
    /\ [][ /\ (sched = "check" /\ successful_claims >= config.claim_limit) =>
                 /\ sched' \in {"check", "lock_final_claims"}
                 /\ UNCHANGED << pc, invocations >>
           /\ Completing =>
                 /\ Completing'
                 /\ UNCHANGED << sent, pc, attempt_count, successful_claims,
                                 invocations, under_ticks >>
         ]_vars

C20_Witness ==
    /\ sched = "completed"
    /\ config.claim_limit = 2
    /\ final = [kind |-> "stats", claims |-> 2, attempts |-> 3]
    /\ under_ticks = 3
    /\ \A w \in callers : Len(sent[w]) = 2

\* C21: in sequential execution the value a successful perform_single_claim
\* returns is the change it made to claimed: after Ok(k) claimed is its value
\* before the attempt plus k, and after an error claimed is unchanged.
C21_ReturnEqualsChange ==
    \A w \in callers :
        Returned(w) =>
            IF ret[w].kind = "Ok"
            THEN SignExtend(successful_claims) =
                     Add64(SignExtend(pre[w].claims), ret[w].val)
            ELSE successful_claims = pre[w].claims

\* C22: in a run with one caller claimed never exceeds claim_limit (taken
\* here with a positive limit), whatever the claim responses are.
C22_ClaimedWithinQuota ==
    config.claim_limit > 0 => successful_claims <= config.claim_limit

\* C23: the count claim_tasks computes for an attempt lies between 0 and the
\* number of ids the attempt submitted, for every claim response (any errno,
\* any payload, any i64 value of the success field).
C23_CountWithinBatch ==
    \A w \in callers :
        reply[w].kind = "ok" =>
            /\ loc[w].count >= 0
            /\ loc[w].count <= Len(loc[w].task_ids)

\* C24: for concurrent invocations whose claim responses each confirm at most
\* the ids submitted, the ids submitted by attempts that read the same value
\* of claimed, and claimed itself, never exceed claim_limit.  Stated for the
\* first invocation of each of the two callers, with a positive limit.
C24_AdmissionIsAtomic ==
    LET honest ==
            \A w \in Workers :
                reply[w].kind = "ok" =>
                    loc[w].count \in 0..Len(loc[w].task_ids)
        submitted == Len(loc["w1"].task_ids) + Len(loc["w2"].task_ids)
    IN  ( /\ config.claim_limit > 0
          /\ invocations = 2
          /\ \A w \in Workers : Begun(w)
          /\ honest ) =>
            /\ successful_claims <= config.claim_limit
            /\ loc["w1"].successful_claims = loc["w2"].successful_claims =>
                  submitted <= config.claim_limit

\* C25: no task ever holds the attempts mutex and the claimed mutex at once,
\* and with concurrent attempts, the loop of start() and getter calls every
\* task that waits for a lock is eventually granted it.
C25_LocksNeverNestAndAreGranted ==
    /\ [](attempt_lock = NoOne \/ claims_lock = NoOne
             \/ attempt_lock # claims_lock)
    /\ \A w \in Workers :
          (pc[w] \in {"lock_attempt", "lock_claims", "lock_add"})
             ~> (pc[w] \in {"increment", "read_claims", "add_claims"})
    /\ (sched \in {"lock_check", "lock_final_claims", "lock_final_attempts"})
          ~> (sched \in {"check", "final_claims", "final_attempts"})
    /\ (reader \in {Wanting[c] : c \in Counters}) ~> (reader \in Counters)

C25_Witness ==
    /\ pc["w2"] = "lock_claims"
    /\ claims_lock = "reader"
    /\ attempt_lock = StartTask
    /\ sched = "final_attempts"

\* C26: a claim limit of zero or less is rejected neither by main() nor by
\* AutoClaimer::new; with it, start() never begins an attempt: the first
\* check of its loop leads to the final reads, which report claimed = 0 (and
\* attempts = 0 unless perform_single_claim was called directly), and no
\* listing or claim request is ever sent; a direct perform_single_claim
\* returns Ok(0) without a network call.
C26_NonPositiveLimit ==
    /\ []( ( /\ args.limit <= 0
             /\ args.cookie # ""
             /\ (args.interval.kind = "nan" \/ args.interval.h >= MinInterval.h)
             /\ args.task_type \in {"audittask", "producetask"} ) =>
               /\ main_pc # "rejected"
               /\ main_pc # "validate" => config.claim_limit = args.limit
               /\ sched \notin {"attempting", "backoff", "crashed"}
               /\ under_ticks = 0
               /\ successful_claims = 0
               /\ \A w \in callers :
                     /\ sent[w] = <<>>
                     /\ pc[w] \notin {"listing", "claiming", "lock_add",
                                      "add_claims", "panicked"}
                     /\ Returned(w) => ret[w] = Ok(0)
               /\ final.kind \in {"claims", "stats"} => final.claims = 0
               /\ (final.kind = "stats" /\ invocations = 0) => final.attempts = 0 )
    /\ [][ (args.limit <= 0 /\ sched = "check" /\ sched' # sched) =>
              sched' = "lock_final_claims" ]_vars

C26_Witness ==
    /\ args.limit = -1
    /\ main_pc = "exit_ok"
    /\ sched = "completed"
    /\ final = [kind |-> "stats", claims |-> 0, attempts |-> 1]
    /\ Returned("w2")
    /\ ret["w2"] = Ok(0)

\* The bound on the attempts has cut the loop off below the limit.
CutOff ==
    /\ sched = "check"
    /\ invocations = MaxAttempts
    /\ successful_claims < config.claim_limit

\* C27: with a claim limit above 0 and identify succeeded, when from some
\* attempt on every listing is answered with errno 0 and at least one task
\* and every claim with errno 0 and at least one item confirmed, start()
\* eventually completes (checked for the limits that the attempts after the
\* flaky ones reach by one item each, and up to the bound on the attempts).
C27_SettledServiceCompletes ==
    ( /\ sched = "waiting"
      /\ config.claim_limit \in 1..(MaxAttempts - MaxFlaky) )
        ~> (sched = "completed" \/ CutOff)

\* What get_audit_task_list returned to the invocation of w: the decoded
\* response, or the failure the attempt returned before a claim was sent.
ListingAnswer(w) ==
    IF listed[w] # None THEN listed[w]
    ELSE IF ret[w].kind = "Err" /\ ClaimRequests(w) = <<>>
    THEN [kind |-> ret[w].why]
    ELSE None

\* What claim_audit_task returned to the invocation of w.
ClaimAnswer(w) ==
    IF reply[w] # None THEN reply[w]
    ELSE IF ret[w].kind = "Err" /\ ClaimRequests(w) # <<>>
    THEN [kind |-> ret[w].why]
    ELSE None

\* C28: perform_auto_claiming of the binary and perform_single_claim with
\* claim_tasks of the library agree: from the same counters and given the
\* same listing and claim responses, an attempt of each sends the same
\* requests with the same ids in the same order, returns normally, fails or
\* panics at the same step, and leaves the same attempts and claimed.
C28_BinaryAttemptAgrees ==
    \A w \in callers :
        Ended(w) =>
            LET twin == perform_auto_claiming(config, pre[w].attempts,
                            pre[w].claims, ListingAnswer(w), ClaimAnswer(w),
                            overflow_checks)
            IN  /\ twin.attempt_count = attempt_count
                /\ twin.successful_claims = successful_claims
                /\ twin.sent = sent[w]
                /\ twin.ret.kind = ret[w].kind
                /\ ret[w].kind = "Err" => twin.ret = ret[w]

C28_Witness ==
    /\ Returned("w1")
    /\ config.task_type = "producetask"
    /\ invocations = 2
    /\ pre["w1"].claims = 1
    /\ Len(sent["w1"]) = 2
    /\ sent["w1"][2].key = "clueIDs"
    /\ Len(sent["w1"][2].ids) = 2
    /\ ExplicitSuccess("w1")
    /\ reply["w1"].errno = 0
    /\ ret["w1"] = Ok(1)
    /\ successful_claims = 2

====
